---- MODULE Spec2Model ----
(***************************************************************************)
(* jsonserde: the decode engine (fromdict.py) and the encode path          *)
(* (asdict.py).  Both are pure, synchronous functions; the state of the    *)
(* model is the last call: the operation, its arguments and its outcome.   *)
(* Nothing outlives a call: _decode_dataclass makes a new DataclsProfile   *)
(* each time it runs, and the decoder registry is never read.              *)
(*                                                                         *)
(* Python objects are records of one shape, so that any two of them can be *)
(* compared:  ty    the runtime class ("int", "dict", "Leaf", ...)         *)
(*            lit   the literal of a scalar, "" otherwise                  *)
(*            keys  the keys of a dict / the field names of an instance,   *)
(*                  in insertion order                                     *)
(*            items the elements of a list or tuple, the values of a dict  *)
(*                  or instance (items[i] belongs to keys[i]), the value   *)
(*                  of an enum member                                      *)
(***************************************************************************)
EXTENDS Integers, Sequences, FiniteSets, TLC

VARIABLES op, value, target, path, keep, outcome

vars == <<op, value, target, path, keep, outcome>>

(* ------------------------------ bounds --------------------------------- *)

\* longest list drawn as an input
MaxLen == 2

(* --------------------------- python objects ---------------------------- *)

Obj(ty, lit, keys, items) == [ty |-> ty, lit |-> lit, keys |-> keys, items |-> items]

PyInt(l) == Obj("int", l, <<>>, <<>>)
PyStr(l) == Obj("str", l, <<>>, <<>>)
PyBool(l) == Obj("bool", l, <<>>, <<>>)
PyNone == Obj("NoneType", "None", <<>>, <<>>)
PyList(items) == Obj("list", "", <<>>, items)
PyTuple(items) == Obj("tuple", "", <<>>, items)
PyDict(keys, items) == Obj("dict", "", keys, items)
PySet(items) == Obj("set", "", <<>>, items)

\* no object at all: the val of an outcome that raised, a default that is MISSING
Nothing == Obj("", "", <<>>, <<>>)

(* ------------------------------ targets -------------------------------- *)
(* A target is a class or a typing annotation.  generic says whether it    *)
(* has __origin__; name is the class name, or the origin's for a generic;  *)
(* args is __args__.                                                       *)

Cls(name) == [name |-> name, generic |-> FALSE, args |-> <<>>]
Generic(origin, args) == [name |-> origin, generic |-> TRUE, args |-> args]

IntT == Cls("int")
StrT == Cls("str")
BoolT == Cls("bool")
FloatT == Cls("float")
ListCls == Cls("list")
NoneT == Cls("NoneType")
InitVarT == Cls("InitVar")
ListOf(t) == Generic("list", <<t>>)
SetOf(t) == Generic("set", <<t>>)
DictOf(k, v) == Generic("dict", <<k, v>>)
OptionalOf(t) == Generic("Union", <<t, NoneT>>)
TupleOf(a, b) == Generic("tuple", <<a, b>>)
\* typing.Sequence, unparameterized
SequenceT == Generic("Sequence", <<>>)

NoTarget == Cls("")

(* ----------------------------- dataclasses ----------------------------- *)
(* The dataclasses the calls are made against.  A field is its name, its   *)
(* annotation and its default / default_factory (Nothing when MISSING; a   *)
(* default_factory is given by the object it produces).                    *)

Field(name, type, default, factory) ==
    [name |-> name, type |-> type, default |-> default, default_factory |-> factory]

LeafT == Cls("Leaf")
RecT == Cls("Rec")
BoxT == Cls("Box")
WrapT == Cls("Wrap")
OptT == Cls("Opt")
BadT == Cls("Bad")

\* class Leaf: n: int
\* class Rec:  a: int; b: str; c: int = 0
\* class Box:  items: List[Leaf]; tags: List[str] = field(default_factory=list)
\* class Wrap: inner: Leaf
\* class Opt:  x: Optional[int]
\* class Bad:  a: int; s: typing.Sequence
Dataclasses ==
    [Leaf |-> <<Field("n", IntT, Nothing, Nothing)>>,
     Rec  |-> <<Field("a", IntT, Nothing, Nothing),
                Field("b", StrT, Nothing, Nothing),
                Field("c", IntT, PyInt("0"), Nothing)>>,
     Box  |-> <<Field("items", ListOf(LeafT), Nothing, Nothing),
                Field("tags", ListOf(StrT), Nothing, PyList(<<>>))>>,
     Wrap |-> <<Field("inner", LeafT, Nothing, Nothing)>>,
     Opt  |-> <<Field("x", OptionalOf(IntT), Nothing, Nothing)>>,
     Bad  |-> <<Field("a", IntT, Nothing, Nothing),
                Field("s", SequenceT, Nothing, Nothing)>>]

is_dataclass(t) == ~t.generic /\ t.name \in DOMAIN Dataclasses

\* dataclasses.fields(datacls)
fields(datacls) == Dataclasses[datacls.name]

\* the classes an object is an instance of (bool is a subclass of int)
Mro(ty) == IF ty = "bool" THEN {"bool", "int"} ELSE {ty}

\* as isinstance, on the exact class only
isinstance_exact(v, t) == t.name = v.ty

isinstance(v, t) == t.name \in Mro(v.ty)

Range(s) == {s[i] : i \in DOMAIN s}

\* the elements of s at the positions in I, in order
RECURSIVE Pick(_, _, _)
Pick(s, I, i) ==
    IF i > Len(s) THEN <<>>
    ELSE (IF i \in I THEN <<s[i]>> ELSE <<>>) \o Pick(s, I, i + 1)

\* position of key k in the key sequence ks (0 when absent)
IndexOf(ks, k) == IF k \in Range(ks) THEN CHOOSE i \in DOMAIN ks : ks[i] = k ELSE 0

(* ------------------------------- errors -------------------------------- *)

Exc(cls, v, t, p, attrs, details, arg) ==
    [cls |-> cls, value |-> v, target |-> t, path |-> p, attrs |-> attrs,
     details |-> details, arg |-> arg]

NoExc == Exc("", Nothing, NoTarget, "", {}, <<>>, "")

MissingRequiredAttributeError(v, t, p, attrs) ==
    Exc("MissingRequiredAttributeError", v, t, p, attrs, <<>>, "")
WrongTypeError(v, t, p) == Exc("WrongTypeError", v, t, p, {}, <<>>, "")
WrongCollectionItemError(v, t, p) == Exc("WrongCollectionItemError", v, t, p, {}, <<>>, "")
WrongCollectionError(v, t, p, details) == Exc("WrongCollectionError", v, t, p, {}, details, "")
\* TypeCompileError carries target and path only; path is the dataclass
NotAllowedTypeError(t, datacls) == Exc("NotAllowedTypeError", Nothing, t, datacls.name, {}, <<>>, "")
\* errors of the interpreter, not of the module
RuntimeError == Exc("RuntimeError", Nothing, NoTarget, "", {}, <<>>, "")
KeyError(k) == Exc("KeyError", Nothing, NoTarget, "", {}, <<>>, k)
TypeError == Exc("TypeError", Nothing, NoTarget, "", {}, <<>>, "")

\* the subclasses of DecodeError: what `except DecodeError` catches
DecodeErrorClasses ==
    {"MissingRequiredAttributeError", "NotSupportedTypeError", "WrongTypeError",
     "WrongCollectionItemError", "WrongCollectionError"}

IsDecodeError(e) == e.cls \in DecodeErrorClasses

(* ------------------------------ outcomes ------------------------------- *)
(* What a call did: it returned val or raised exc.  profs lists, in order, *)
(* the dataclasses whose field list the call built                         *)
(* (DataclsUtils.make_field_param_lookup), once per execution.             *)

Return(v, profs) == [kind |-> "return", val |-> v, exc |-> NoExc, profs |-> profs]
Raise(e, profs) == [kind |-> "raise", val |-> Nothing, exc |-> e, profs |-> profs]
NoOutcome == [kind |-> "", val |-> Nothing, exc |-> NoExc, profs |-> <<>>]

(* ------------------------ fromdict.py: profile ------------------------- *)

_is_type_not_allowed(t) == t \in {InitVarT, SequenceT}

\* as _is_dataclass_field_required, forgetting default_factory
required_without_factory(f) == f.default = Nothing

_is_dataclass_field_required(f) == f.default = Nothing /\ f.default_factory = Nothing

\* index of the first field whose annotation is not allowed (0 when none)
FirstNotAllowed(fs) ==
    IF \E i \in DOMAIN fs : _is_type_not_allowed(fs[i].type)
    THEN CHOOSE i \in DOMAIN fs :
             /\ _is_type_not_allowed(fs[i].type)
             /\ \A j \in 1..(i - 1) : ~_is_type_not_allowed(fs[j].type)
    ELSE 0

\* DataclsUtils.make_field_param_lookup: name -> FieldParam(type, required),
\* or NotAllowedTypeError at the first field of a disallowed type
make_field_param_lookup(datacls) ==
    LET fs == fields(datacls)
        bad == FirstNotAllowed(fs)
    IN  IF bad # 0
        THEN Raise(NotAllowedTypeError(fs[bad].type, datacls), <<datacls.name>>)
        ELSE [kind |-> "return",
              val |-> [i \in DOMAIN fs |->
                         [name |-> fs[i].name, type |-> fs[i].type,
                          required |-> _is_dataclass_field_required(fs[i])]],
              exc |-> NoExc, profs |-> <<datacls.name>>]

\* DataclsProfile.required_field_names, from the lookup
required_field_names(lookup) == {lookup[i].name : i \in {j \in DOMAIN lookup : lookup[j].required}}

\* DataclsProfile.compute_missing_fields
compute_missing_fields(lookup, payload) == required_field_names(lookup) \ Range(payload.keys)

\* field_param_lookup[k].type; the caller has checked that k is a key
LookupType(lookup, k) == lookup[CHOOSE i \in DOMAIN lookup : lookup[i].name = k].type

LookupHas(lookup, k) == \E i \in DOMAIN lookup : lookup[i].name = k

\* target(**payload): the generated __init__ stores the fields in declared
\* order, an absent one from its default or default_factory
Construct(datacls, keys, items) ==
    LET fs == fields(datacls)
    IN  Obj(datacls.name, "",
            [i \in DOMAIN fs |-> fs[i].name],
            [i \in DOMAIN fs |->
                IF fs[i].name \in Range(keys) THEN items[IndexOf(keys, fs[i].name)]
                ELSE IF fs[i].default # Nothing THEN fs[i].default
                ELSE fs[i].default_factory])

(* ------------------------- fromdict.py: decode ------------------------- *)

\* the characters of the str literals the inputs use
Chars(lit) ==
    IF lit = "" THEN <<>>
    ELSE IF lit = "bad" THEN <<"b", "a", "d">>
    ELSE <<lit>>

\* whether enumerate(value) can iterate value
Iterable(v) == v.ty \in {"list", "tuple", "set", "dict", "str"}

\* what it yields: the elements, the keys of a dict, the characters of a str
Iterate(v) ==
    IF v.ty = "dict" THEN [i \in DOMAIN v.keys |-> PyStr(v.keys[i])]
    ELSE IF v.ty = "str" THEN [i \in DOMAIN Chars(v.lit) |-> PyStr(Chars(v.lit)[i])]
    ELSE v.items

\* f'{path}.{k}'
FieldPath(p, k) == p \o "." \o k

\* as IndexPath, on the index counted from 1
IndexPath_from_one(p, idx) == p \o "[" \o ToString(idx + 1) \o "]"

\* f'{path}[{idx}]', idx counted from 0
IndexPath(p, idx) == p \o "[" \o ToString(idx) \o "]"

RECURSIVE decode_input_internal(_, _, _)
RECURSIVE DecodeFields(_, _, _, _, _, _, _)
RECURSIVE DecodeItems(_, _, _, _, _, _, _, _)

\* as DecodeFields, passing over a key the dataclass does not declare
RECURSIVE DecodeFields_skipping(_, _, _, _, _, _, _)
DecodeFields_skipping(v, t, p, lookup, i, payload, profs) ==
    IF i > Len(v.keys)
    THEN LET I == {j \in DOMAIN v.keys : LookupHas(lookup, v.keys[j])}
         IN  Return(Construct(t, Pick(v.keys, I, 1), payload), profs)
    ELSE LET k == v.keys[i]
         IN  IF ~LookupHas(lookup, k)
             THEN DecodeFields_skipping(v, t, p, lookup, i + 1, payload, profs)
             ELSE LET r == decode_input_internal(v.items[i], LookupType(lookup, k),
                                                 FieldPath(p, k))
                  IN  IF r.kind = "raise"
                      THEN Raise(r.exc, profs \o r.profs)
                      ELSE DecodeFields_skipping(v, t, p, lookup, i + 1,
                                                 Append(payload, r.val), profs \o r.profs)

\* the loop of _decode_dataclass over value.items(), from the i-th entry on;
\* payload holds the decoded values of the entries before it
DecodeFields(v, t, p, lookup, i, payload, profs) ==
    IF i > Len(v.keys)
    THEN Return(Construct(t, v.keys, payload), profs)
    ELSE LET k == v.keys[i]
         IN  IF ~LookupHas(lookup, k)
             THEN Raise(KeyError(k), profs)
             ELSE LET r == decode_input_internal(v.items[i], LookupType(lookup, k),
                                                 FieldPath(p, k))
                  IN  IF r.kind = "raise"
                      THEN Raise(r.exc, profs \o r.profs)
                      ELSE DecodeFields(v, t, p, lookup, i + 1,
                                        Append(payload, r.val), profs \o r.profs)

_decode_dataclass(v, t, p) ==
    IF v.ty # "dict"
    THEN Raise(RuntimeError, <<>>)
    ELSE LET dp == make_field_param_lookup(t)
         IN  IF dp.kind = "raise"
             THEN dp
             ELSE LET missing_fields == compute_missing_fields(dp.val, v)
                  IN  IF missing_fields # {}
                      THEN Raise(MissingRequiredAttributeError(v, t, p, missing_fields),
                                 dp.profs)
                      ELSE DecodeFields(v, t, p, dp.val, 1, <<>>, dp.profs)

\* the loop of _decode_homogeneous_typing_collection, from the i-th item on
DecodeItems(v, origin, inner, p, i, res, errs, profs) ==
    LET its == Iterate(v)
    IN  IF i > Len(its)
        THEN IF errs # <<>>
             THEN Raise(WrongCollectionError(v, origin, p, errs), profs)
             ELSE Return(Obj(origin.name, "", <<>>, res), profs)
        ELSE LET inner_path == IndexPath(p, i - 1)
                 r == decode_input_internal(its[i], inner, inner_path)
             IN  IF r.kind = "return"
                 THEN DecodeItems(v, origin, inner, p, i + 1, Append(res, r.val),
                                  errs, profs \o r.profs)
                 ELSE IF IsDecodeError(r.exc)
                 THEN DecodeItems(v, origin, inner, p, i + 1, res,
                                  Append(errs, WrongCollectionItemError(its[i], inner,
                                                                        inner_path)),
                                  profs \o r.profs)
                 ELSE Raise(r.exc, profs \o r.profs)

_decode_homogeneous_typing_collection(v, origin, inner, p) ==
    IF ~Iterable(v)
    THEN Raise(TypeError, <<>>)
    ELSE DecodeItems(v, origin, inner, p, 1, <<>>, <<>>, <<>>)

\* falls off its end, returning None, when the origin is not list
_decode_typing_annotation(v, t, p) ==
    IF t.name \in {"list"}
    THEN _decode_homogeneous_typing_collection(v, Cls(t.name), t.args[1], p)
    ELSE Return(PyNone, <<>>)

\* the raise of NotSupportedTypeError after the if/else (line 228) cannot
\* run: both branches before it leave the function
decode_input_internal(v, t, p) ==
    IF t.generic
    THEN _decode_typing_annotation(v, t, p)
    ELSE IF is_dataclass(t)
    THEN _decode_dataclass(v, t, p)
    ELSE IF isinstance(v, t)
    THEN Return(v, <<>>)
    ELSE Raise(WrongTypeError(v, t, p), <<>>)

decode_input(v, t) == decode_input_internal(v, t, "$")

(* ------------------------------ asdict.py ------------------------------ *)
(* The objects encoded here carry no __dictify__ or __empty__ hook, are no *)
(* pydantic models and have no registered dict_encoder: dictify reaches    *)
(* its isinstance chain.                                                   *)

\* class Color(Enum): RED = 1; NIL = None; EMPTY = []
EnumClasses == {"Color"}

EnumMember(cls, name, v) == Obj(cls, name, <<>>, <<v>>)

NotImplementedError == Exc("NotImplementedError", Nothing, NoTarget, "", {}, <<>>, "")

RECURSIVE dictify(_)
dictify(obj) ==
    IF obj.ty = "NoneType" THEN Return(obj, <<>>)
    ELSE IF obj.ty \in EnumClasses THEN dictify(obj.items[1])
    ELSE IF obj.ty \in {"int", "float", "str", "bool"} THEN Return(obj, <<>>)
    ELSE IF obj.ty \in {"list", "tuple"}
    THEN LET rs == [i \in DOMAIN obj.items |-> dictify(obj.items[i])]
         IN  IF \E i \in DOMAIN rs : rs[i].kind = "raise"
             THEN Raise(NotImplementedError, <<>>)
             ELSE Return(PyList([i \in DOMAIN rs |-> rs[i].val]), <<>>)
    ELSE IF obj.ty = "dict" \/ obj.ty \in DOMAIN Dataclasses
    THEN LET rs == [i \in DOMAIN obj.items |-> dictify(obj.items[i])]
         IN  IF \E i \in DOMAIN rs : rs[i].kind = "raise"
             THEN Raise(NotImplementedError, <<>>)
             ELSE Return(PyDict(obj.keys, [i \in DOMAIN rs |-> rs[i].val]), <<>>)
    ELSE Raise(NotImplementedError, <<>>)

\* the singledispatch function empty: dict and list by comparison with the
\* empty literal, anything else by `is None`
empty(obj) ==
    IF obj.ty = "dict" THEN obj.keys = <<>>
    ELSE IF obj.ty = "list" THEN obj.items = <<>>
    ELSE obj.ty = "NoneType"

\* keep_empty_array_keys: None, or the keys given
KeepNone == [given |-> FALSE, keys |-> {}]
KeepKeys(ks) == [given |-> TRUE, keys |-> ks]

_qualified(attr, v, keep_empty_array_keys) ==
    IF ~keep_empty_array_keys.given
    THEN ~empty(v)
    ELSE (attr \in keep_empty_array_keys.keys /\ v.ty = "list" /\ v.items = <<>>)
         \/ ~empty(v)

RECURSIVE dictify_drop_empty(_, _)
dictify_drop_empty(obj, keep_empty_array_keys) ==
    IF obj.ty = "list"
    THEN LET rs == [i \in DOMAIN obj.items |->
                        dictify_drop_empty(obj.items[i], keep_empty_array_keys)]
         IN  IF \E i \in DOMAIN rs : rs[i].kind = "raise"
             THEN Raise(NotImplementedError, <<>>)
             ELSE LET os == [i \in DOMAIN rs |-> rs[i].val]
                  IN  Return(PyList(Pick(os, {i \in DOMAIN os : ~empty(os[i])}, 1)), <<>>)
    ELSE IF obj.ty = "dict"
    THEN LET rs == [i \in DOMAIN obj.items |->
                        dictify_drop_empty(obj.items[i], keep_empty_array_keys)]
         IN  IF \E i \in DOMAIN rs : rs[i].kind = "raise"
             THEN Raise(NotImplementedError, <<>>)
             ELSE LET vo == [i \in DOMAIN rs |-> rs[i].val]
                      I == {i \in DOMAIN vo :
                               _qualified(obj.keys[i], vo[i], keep_empty_array_keys)}
                  IN  Return(PyDict(Pick(obj.keys, I, 1), Pick(vo, I, 1)), <<>>)
    ELSE IF obj.ty \in DOMAIN Dataclasses
    THEN LET d == dictify(obj)
         IN  IF d.kind = "raise" THEN d
             ELSE dictify_drop_empty(d.val, keep_empty_array_keys)
    ELSE IF empty(obj)
    THEN Return(PyNone, <<>>)
    ELSE dictify(obj)

(* ------------------------------- inputs -------------------------------- *)

\* the sequences over S of length at most n
SeqsUpTo(S, n) == UNION {[1..k -> S] : k \in 0..n}

Slot(key, vals) == [key |-> key, vals |-> vals]

\* the dicts that give each slot, in order, no entry or one of its values
RECURSIVE DictsFrom(_, _)
DictsFrom(slots, i) ==
    IF i > Len(slots)
    THEN {PyDict(<<>>, <<>>)}
    ELSE LET rest == DictsFrom(slots, i + 1)
         IN  rest \cup {PyDict(<<slots[i].key>> \o r.keys, <<v>> \o r.items) :
                            v \in slots[i].vals, r \in rest}

\* a key no dataclass declares, as the first or as the last entry
WithExtraKey(D) ==
    D \cup {PyDict(<<"z">> \o d.keys, <<PyInt("5")>> \o d.items) : d \in D}
      \cup {PyDict(d.keys \o <<"z">>, d.items \o <<PyInt("5")>>) : d \in D}

LeafDicts == DictsFrom(<<Slot("n", {PyInt("5"), PyStr("x")})>>, 1)

LeafGood == {PyDict(<<"n">>, <<PyInt("5")>>), PyDict(<<"n">>, <<PyStr("x")>>)}

LeafValues == WithExtraKey(LeafDicts) \cup {PyInt("5")}

RecValues ==
    WithExtraKey(DictsFrom(<<Slot("a", {PyInt("5"), PyStr("x")}),
                             Slot("b", {PyStr("x")}),
                             Slot("c", {PyInt("5")})>>, 1))
    \cup {PyInt("5")}

BoxValues ==
    DictsFrom(<<Slot("items", {PyList(s) : s \in SeqsUpTo(LeafGood, MaxLen)}),
                Slot("tags", {PyList(<<PyStr("x")>>)})>>, 1)

WrapValues == DictsFrom(<<Slot("inner", LeafDicts \cup {PyInt("5")})>>, 1)

OptValues == DictsFrom(<<Slot("x", {PyInt("5"), PyNone, PyStr("x")})>>, 1)

BadValues == DictsFrom(<<Slot("a", {PyInt("5")}), Slot("s", {PyList(<<>>)})>>, 1)

ScalarValues == {PyInt("5"), PyStr("5"), PyStr("x"), PyBool("True"), PyNone}

NotLists == {PyInt("5"), PyStr("bad"), PyDict(<<"n">>, <<PyInt("5")>>)}

\* the calls of decode_input: <<value, target>>
DecodeInputs ==
    (ScalarValues \X {IntT, StrT, BoolT, FloatT})
    \cup (LeafValues \X {LeafT})
    \cup (RecValues \X {RecT})
    \cup (BoxValues \X {BoxT})
    \cup (WrapValues \X {WrapT})
    \cup (OptValues \X {OptT})
    \cup (BadValues \X {BadT})
    \cup (({PyList(s) : s \in SeqsUpTo({PyInt("5"), PyStr("x"), PyBool("True")}, MaxLen)}
           \cup NotLists) \X {ListOf(IntT)})
    \cup (({PyList(s) : s \in SeqsUpTo(LeafDicts \cup {PyInt("5")}, MaxLen)}
           \cup {PyInt("5")}) \X {ListOf(LeafT)})
    \cup ({PyList(s) : s \in SeqsUpTo({PyList(<<PyInt("5")>>), PyList(<<PyStr("x")>>),
                                       PyInt("5")}, MaxLen)} \X {ListOf(ListOf(IntT))})
    \cup ({PyList(s) : s \in SeqsUpTo({PyInt("5"), PyNone}, MaxLen)}
          \X {ListOf(OptionalOf(IntT))})
    \cup ({PyInt("5"), PyNone, PyList(<<PyInt("5")>>)}
          \X {SetOf(IntT), OptionalOf(IntT), DictOf(StrT, IntT), TupleOf(IntT, StrT),
              SequenceT})

\* the paths decode_input_internal is entered with, other than the root's
InnerPaths == {"$.inner"}

Inst(cls, items) ==
    Obj(cls, "", [i \in DOMAIN Dataclasses[cls] |-> Dataclasses[cls][i].name], items)

Red == EnumMember("Color", "RED", PyInt("1"))
Nil == EnumMember("Color", "NIL", PyNone)
Empty == EnumMember("Color", "EMPTY", PyList(<<>>))

\* the typed values that are encoded and decoded back
DomainValues ==
    {PyInt("5"), PyStr("x"), PyBool("True"), PyNone, Red,
     Inst("Leaf", <<PyInt("5")>>),
     Inst("Rec", <<PyInt("5"), PyStr("x"), PyInt("0")>>),
     Inst("Rec", <<PyInt("5"), PyStr("x"), PyInt("7")>>),
     Inst("Box", <<PyList(<<>>), PyList(<<>>)>>),
     Inst("Box", <<PyList(<<Inst("Leaf", <<PyInt("5")>>)>>), PyList(<<PyStr("x")>>)>>),
     Inst("Wrap", <<Inst("Leaf", <<PyInt("5")>>)>>),
     Inst("Opt", <<PyInt("5")>>),
     Inst("Opt", <<PyNone>>),
     PySet(<<>>),
     Inst("Leaf", <<PySet(<<>>)>>)}

\* what a dict entry or a list element holds when it is pruned
Leaves ==
    {PyNone, PyInt("5"), PyList(<<>>), PyDict(<<>>, <<>>), PyList(<<PyNone>>),
     PyDict(<<"k">>, <<PyNone>>), PyDict(<<"k">>, <<PyList(<<>>)>>),
     PyTuple(<<>>), PyTuple(<<PyNone>>), Nil, Empty, Inst("Leaf", <<PyNone>>)}

Containers ==
    {PyDict(<<"k">>, <<v>>) : v \in Leaves}
    \cup {PyDict(<<"j">>, <<v>>) : v \in Leaves}
    \cup {PyDict(<<"j", "k">>, <<v, w>>) : v, w \in {PyNone, PyInt("5"), PyList(<<>>)}}
    \cup {PyList(s) : s \in SeqsUpTo({PyNone, PyInt("5"), PyTuple(<<PyNone>>)}, MaxLen)}
    \cup {PyList(<<v>>) : v \in Leaves}
    \cup {PyDict(<<"j">>, <<PyDict(<<"k">>, <<v>>)>>) : v \in Leaves}

\* the objects that are encoded
EncodeInputs == DomainValues \cup Containers

Keeps == {KeepNone, KeepKeys({"k"})}

(* ------------------------------- actions ------------------------------- *)

type_of(obj) == Cls(obj.ty)

Init ==
    /\ op = "init"
    /\ value = Nothing
    /\ target = NoTarget
    /\ path = ""
    /\ keep = KeepNone
    /\ outcome = NoOutcome

\* decode_input(v, t)
DecodeInput(v, t) ==
    /\ op' = "decode_input"
    /\ value' = v
    /\ target' = t
    /\ path' = "$"
    /\ keep' = KeepNone
    /\ outcome' = decode_input(v, t)

\* decode_input_internal(v, t, p), as a field or element decode enters it
DecodeInputInternal(v, t, p) ==
    /\ op' = "decode_input_internal"
    /\ value' = v
    /\ target' = t
    /\ path' = p
    /\ keep' = KeepNone
    /\ outcome' = decode_input_internal(v, t, p)

\* dictify(obj)
Dictify(obj) ==
    /\ op' = "dictify"
    /\ value' = obj
    /\ target' = NoTarget
    /\ path' = ""
    /\ keep' = KeepNone
    /\ outcome' = dictify(obj)

\* decode_input(d, type_of(v)) of the d that dictify(v) has just returned
DecodeEncoded ==
    /\ op = "dictify"
    /\ outcome.kind = "return"
    /\ op' = "roundtrip"
    /\ target' = type_of(value)
    /\ path' = "$"
    /\ outcome' = decode_input(outcome.val, type_of(value))
    /\ UNCHANGED <<value, keep>>

\* dictify_drop_empty(obj, keep_empty_array_keys)
DictifyDropEmpty(obj, k) ==
    /\ op' = "dictify_drop_empty"
    /\ value' = obj
    /\ target' = NoTarget
    /\ path' = ""
    /\ keep' = k
    /\ outcome' = dictify_drop_empty(obj, k)

Next ==
    \/ \E c \in DecodeInputs : DecodeInput(c[1], c[2])
    \/ \E c \in DecodeInputs, p \in InnerPaths : DecodeInputInternal(c[1], c[2], p)
    \/ \E obj \in EncodeInputs : Dictify(obj)
    \/ DecodeEncoded
    \/ \E obj \in EncodeInputs, k \in Keeps : DictifyDropEmpty(obj, k)

Spec == Init /\ [][Next]_vars

(* ------------------------------- claims -------------------------------- *)

DecodeOps == {"decode_input", "decode_input_internal"}

\* the least element of a non-empty set of integers
Min(I) == CHOOSE i \in I : \A j \in I : i <= j

\* the names a dataclass declares, and those it declares with neither a
\* default nor a default factory
Declared(S) == {fields(S)[i].name : i \in DOMAIN fields(S)}
RequiredOf(S) ==
    {fields(S)[i].name : i \in {j \in DOMAIN fields(S) :
        fields(S)[j].default = Nothing /\ fields(S)[j].default_factory = Nothing}}
DeclaredType(S, k) == fields(S)[CHOOSE i \in DOMAIN fields(S) : fields(S)[i].name = k].type

\* a structure target: a dataclass whose field list resolves (no field of
\* a disallowed type)
StructureTarget(t) ==
    is_dataclass(t) /\ \A i \in DOMAIN fields(t) : fields(t)[i].type \notin {InitVarT, SequenceT}

ScalarTarget(t) == ~t.generic /\ ~is_dataclass(t)

\* ty is the class T or a subclass of it
SubclassOf(ty, T) == ty = T \/ (ty = "bool" /\ T = "int")

\* C1: a dict that lacks required fields of a structure target makes the
\* decode raise MissingRequiredAttributeError with exactly the lacking
\* names as attrs, the target, the dict and the given path, whatever the
\* fields that are present hold.
C1_MissingRequired ==
    (/\ op \in DecodeOps
     /\ StructureTarget(target)
     /\ value.ty = "dict"
     /\ RequiredOf(target) \ Range(value.keys) # {})
    => /\ outcome.kind = "raise"
       /\ outcome.exc = MissingRequiredAttributeError(
                            value, target, path, RequiredOf(target) \ Range(value.keys))
       /\ outcome.profs = <<target.name>>

\* C1 witness: Rec lacks b while its a holds a str and an undeclared key
\* is present; attrs is {b}
C1_Witness ==
    /\ op = "decode_input"
    /\ target = RecT
    /\ value.ty = "dict"
    /\ value.keys = <<"a", "z">>
    /\ value.items[1] = PyStr("x")
    /\ outcome.exc.cls = "MissingRequiredAttributeError"
    /\ outcome.exc.attrs = {"b"}

\* C4: against a scalar target a value of that class or of a subclass is
\* returned as it is (a bool for int), any other raises WrongTypeError
\* with the value, the target and the current path.
C4_Scalar ==
    (op \in DecodeOps /\ ScalarTarget(target))
    => IF SubclassOf(value.ty, target.name)
       THEN outcome.kind = "return" /\ outcome.val = value
       ELSE outcome.kind = "raise" /\ outcome.exc = WrongTypeError(value, target, path)

\* C4 witness: True is returned for int
C4_Witness ==
    /\ op = "decode_input"
    /\ target = IntT
    /\ value = PyBool("True")
    /\ outcome.kind = "return"
    /\ outcome.val = PyBool("True")

\* the elements of a Box payload's items whose n is not an int
BoxCase ==
    /\ op \in DecodeOps
    /\ target = BoxT
    /\ value.ty = "dict"
    /\ value.keys # <<>>
    /\ value.keys[1] = "items"
    /\ value.items[1].ty = "list"
BadLeaves(l) ==
    {i \in DOMAIN l.items :
        /\ l.items[i].ty = "dict"
        /\ l.items[i].keys = <<"n">>
        /\ ~SubclassOf(l.items[i].items[1].ty, "int")}

ExtraKeys(v, S) == {i \in DOMAIN v.keys : v.keys[i] \notin Declared(S)}
WithoutExtraKeys(v, S) ==
    PyDict(Pick(v.keys, DOMAIN v.keys \ ExtraKeys(v, S), 1),
           Pick(v.items, DOMAIN v.keys \ ExtraKeys(v, S), 1))
C7Case ==
    /\ op \in DecodeOps
    /\ StructureTarget(target)
    /\ value.ty = "dict"
    /\ RequiredOf(target) \subseteq Range(value.keys)
    /\ ExtraKeys(value, target) # {}

ElementOutcome(i) ==
    decode_input_internal(value.items[i], target.args[1],
                          path \o "[" \o ToString(i - 1) \o "]")

\* C2 as stated: against a list annotation, a list of which at least one
\* element fails with a decode error raises WrongCollectionError with the
\* list, the path and one WrongCollectionItemError per failing element in
\* index order; a list of which no element fails is returned decoded.
C2_Sequence ==
    (/\ op \in DecodeOps
     /\ target.generic
     /\ target.name = "list"
     /\ value.ty = "list")
    => LET F == {i \in DOMAIN value.items :
                    ElementOutcome(i).kind = "raise" /\ IsDecodeError(ElementOutcome(i).exc)}
           none == \A i \in DOMAIN value.items : ElementOutcome(i).kind = "return"
       IN  /\ F # {}
              => /\ outcome.kind = "raise"
                 /\ outcome.exc.cls = "WrongCollectionError"
                 /\ outcome.exc.value = value
                 /\ outcome.exc.path = path
                 /\ Len(outcome.exc.details) = Cardinality(F)
                 /\ \A i \in F :
                       outcome.exc.details[Cardinality({j \in F : j <= i})]
                         = WrongCollectionItemError(
                               value.items[i], target.args[1],
                               path \o "[" \o ToString(i - 1) \o "]")
           /\ none
              => /\ outcome.kind = "return"
                 /\ outcome.val = PyList([i \in DOMAIN value.items |-> ElementOutcome(i).val])

\* C5 as stated: decoding what dictify made of a value, against the
\* value's type, gives back a value equal to it
C5_RoundTrip ==
    op = "roundtrip" => (outcome.kind = "return" /\ outcome.val = value)

\* a value of the shape the target describes
RECURSIVE Conforms(_, _)
Conforms(v, t) ==
    IF t.generic /\ t.name = "list"
    THEN v.ty = "list" /\ \A i \in DOMAIN v.items : Conforms(v.items[i], t.args[1])
    ELSE IF t.generic /\ t.name = "Union"
    THEN \E i \in DOMAIN t.args : Conforms(v, t.args[i])
    ELSE IF t.generic
    THEN v.ty = t.name
    ELSE IF is_dataclass(t)
    THEN /\ v.ty = t.name
         /\ \A i \in DOMAIN fields(t) : Conforms(v.items[i], fields(t)[i].type)
    ELSE SubclassOf(v.ty, t.name)

\* C6 as stated: decode_input either returns a value of the target's shape
\* or raises one of the decode errors
C6_Outcomes ==
    op = "decode_input"
    => \/ outcome.kind = "return" /\ Conforms(outcome.val, target)
       \/ outcome.kind = "raise" /\ IsDecodeError(outcome.exc)

\* C8 as stated: no decode builds the field list of a dataclass more than
\* once
C8_ProfileOnce ==
    op \in DecodeOps \cup {"roundtrip"}
    => \A i, j \in DOMAIN outcome.profs :
           outcome.profs[i] = outcome.profs[j] => i = j

\* an annotation with an origin other than list
Unsupported(t) == t.generic /\ t.name # "list"

\* C9 as stated: a decode that meets an annotation whose origin is not
\* list (as the target, as the type of a decoded field, as the element
\* type of a non-empty list) raises
C9_Unsupported ==
    (/\ op \in DecodeOps
     /\ \/ Unsupported(target)
        \/ /\ target = OptT
           /\ value.ty = "dict"
           /\ value.keys = <<"x">>
        \/ /\ target.generic
           /\ target.name = "list"
           /\ Unsupported(target.args[1])
           /\ value.ty = "list"
           /\ value.items # <<>>)
    => outcome.kind = "raise"

Emptyish(v) == v = PyNone \/ v = PyDict(<<>>, <<>>) \/ v = PyList(<<>>)

\* no null or empty entry or element at any depth, but for an empty list
\* under a key of K
RECURSIVE Pruned(_, _)
Pruned(o, K) ==
    IF o.ty = "dict"
    THEN \A i \in DOMAIN o.keys :
            /\ Emptyish(o.items[i]) => (o.keys[i] \in K.keys /\ o.items[i] = PyList(<<>>))
            /\ Pruned(o.items[i], K)
    ELSE IF o.ty = "list"
    THEN \A i \in DOMAIN o.items : ~Emptyish(o.items[i]) /\ Pruned(o.items[i], K)
    ELSE TRUE

\* C10 as stated: what dictify_drop_empty returns holds no null or empty
\* entry or element at any depth, but for an empty list under a kept key
C10_Pruned ==
    (op = "dictify_drop_empty" /\ outcome.kind = "return") => Pruned(outcome.val, keep)

====
